---- MODULE Spec2Model ----
(***************************************************************************)
(* A model of labels.py: the validator (lint_labels), the merge of the     *)
(* W3C label feed into labels.json (import_w3c_labels, update_labels) and  *)
(* the synchronisation of a repository's labels (adjust_repository_labels).*)
(*                                                                         *)
(* A label is a record whose keys may be absent ("w3c" in label is a test  *)
(* on DOMAIN).  Strings the code computes on (descriptions, colors) are    *)
(* sequences of one-character strings; names are compared by NameRank.     *)
(***************************************************************************)
EXTENDS Integers, Sequences, FiniteSets, TLC

VARIABLES
    pc,               \* position of the running process
    disk,             \* labels.json
    docs,             \* LABELS.md
    feed,             \* what https://w3c.github.io/hr-labels.json serves
    w3c_labels,       \* import_w3c_labels: the fetched feed
    w3c_label_index,  \* import_w3c_labels: the name index, in insertion order
    local_labels,     \* import_w3c_labels: the labels being merged
    i,                \* import_w3c_labels / adjust_repository_labels: loop index
    out,              \* what the process printed, in order
    disk0,            \* history: labels.json when the current run started
    merges,           \* history: merges completed so far (0, 1, 2 = two or more)
    remote,           \* the repository's labels at GitHub: name -> label
    remote0,          \* history: the repository's labels when the run started
    labels,           \* adjust_repository_labels / lint_labels: the loaded labels
    d,                \* adjust_repository_labels: default names tried so far
    r,                \* status of the last response
    calls,            \* history: the requests sent, in order
    failures,         \* history: responses so far with an unexpected status
    runs              \* history: runs of the sync completed before this one

----------------------------------------------------------------------------
(* Bounds of the model *)

MaxLocal == 2
MaxUpstream == 2
MaxSync == 2
MaxFailures == 1
MaxLint == 2
MaxRuns == 2

----------------------------------------------------------------------------
(* Dictionaries and strings *)

Has(label, key) == key \in DOMAIN label

With(label, key, value) ==
    [k \in DOMAIN label \cup {key} |-> IF k = key THEN value ELSE label[k]]

Without(label, key) == [k \in DOMAIN label \ {key} |-> label[k]]

SeqsUpTo(S, n) == UNION {[1..k -> S] : k \in 0..n}

Rep(c, n) == [k \in 1..n |-> c]

\* str.lower() on one character of the alphabet used here
LowerChar(c) ==
    CASE c = "A" -> "a" [] c = "B" -> "b" [] c = "C" -> "c"
      [] c = "D" -> "d" [] c = "E" -> "e" [] c = "F" -> "f"
      [] OTHER -> c

lower(s) == [k \in DOMAIN s |-> LowerChar(s[k])]

\* the order of str on the names used here (code point order)
NameRank(name) ==
    CASE name = "a11y" -> 1
      [] name = "bug" -> 2
      [] name = "good first issue" -> 3
      [] name = "new-label" -> 4
      [] name = "privacy" -> 5
      [] OTHER -> 6

----------------------------------------------------------------------------
(* remove_markdown_links: re.sub(r"\[(.+)\]\(.+\)", r"\1", input).         *)
(* A match starting at p is "[" group "](" url ")" with group and url not  *)
(* empty and free of newlines; both .+ are greedy, so the group ends as    *)
(* far right as a match allows, and then the url does.                     *)

Dot(c) == c # "\n"

DotRun(s, a, b) == a <= b /\ \A k \in a..b : Dot(s[k])

\* <<e1, e2>>: the group is s[p+1..e1], the url s[e1+3..e2], ")" at e2+1
MatchesAt(s, p) ==
    IF s[p] # "["
    THEN {}
    ELSE LET closes == {e1 \in (p + 1)..(Len(s) - 4) :
                            s[e1 + 1] = "]" /\ s[e1 + 2] = "("}
             ends == {e2 \in (p + 4)..(Len(s) - 1) : s[e2 + 1] = ")"}
         IN  {m \in closes \X ends :
                /\ m[1] + 3 <= m[2]
                /\ DotRun(s, p + 1, m[1])
                /\ DotRun(s, m[1] + 3, m[2])}

GreedyMatch(s, p) ==
    LET ms == MatchesAt(s, p)
        e1 == CHOOSE x \in {m[1] : m \in ms} : \A m \in ms : m[1] <= x
        e2 == CHOOSE y \in {m[2] : m \in ms} :
                  /\ <<e1, y>> \in ms
                  /\ \A m \in ms : m[1] = e1 => m[2] <= y
    IN  <<e1, e2>>

RECURSIVE SubFrom(_, _)
SubFrom(s, pos) ==
    LET starts == {p \in pos..Len(s) : MatchesAt(s, p) # {}}
    IN  IF starts = {}
        THEN SubSeq(s, pos, Len(s))
        ELSE LET p == CHOOSE x \in starts : \A y \in starts : x <= y
                 m == GreedyMatch(s, p)
             IN  SubSeq(s, pos, p - 1) \o SubSeq(s, p + 1, m[1])
                    \o SubFrom(s, m[2] + 2)

remove_markdown_links(input) == SubFrom(input, 1)

----------------------------------------------------------------------------
(* lint_labels: one message at most for a label, that of the first check   *)
(* that fails.  A message is <<what, name>>, <<what>> for a label without  *)
(* a name; later checks read label["name"], which the first check has      *)
(* found present.                                                          *)

MaxDescription == 100

\* mutant: a description of exactly 100 characters is reported too
LintMessageOffByOne(label) ==
    IF ~Has(label, "name")
    THEN <<<<"needs a name">>>>
    ELSE IF ~Has(label, "description")
    THEN <<<<"needs a description", label.name>>>>
    ELSE IF Len(remove_markdown_links(label.description)) >= MaxDescription
    THEN <<<<"description length", label.name>>>>
    ELSE IF ~Has(label, "color")
    THEN <<<<"needs a color", label.name>>>>
    ELSE IF Has(label, "url_exclude_is_open") /\ label.url_exclude_is_open # TRUE
    THEN <<<<"url_exclude_is_open needs to be set to true if present", label.name>>>>
    ELSE IF Has(label, "w3c") /\ label.w3c # TRUE
    THEN <<<<"w3c needs to be set to true if present", label.name>>>>
    ELSE <<>>

\* mutant: the color is checked before the length of the description
LintMessageColorFirst(label) ==
    IF ~Has(label, "name")
    THEN <<<<"needs a name">>>>
    ELSE IF ~Has(label, "description")
    THEN <<<<"needs a description", label.name>>>>
    ELSE IF ~Has(label, "color")
    THEN <<<<"needs a color", label.name>>>>
    ELSE IF Len(remove_markdown_links(label.description)) > MaxDescription
    THEN <<<<"description length", label.name>>>>
    ELSE IF Has(label, "url_exclude_is_open") /\ label.url_exclude_is_open # TRUE
    THEN <<<<"url_exclude_is_open needs to be set to true if present", label.name>>>>
    ELSE IF Has(label, "w3c") /\ label.w3c # TRUE
    THEN <<<<"w3c needs to be set to true if present", label.name>>>>
    ELSE <<>>

\* lines 14-26
LintMessage(label) ==
    IF ~Has(label, "name")
    THEN <<<<"needs a name">>>>
    ELSE IF ~Has(label, "description")
    THEN <<<<"needs a description", label.name>>>>
    ELSE IF Len(remove_markdown_links(label.description)) > MaxDescription
    THEN <<<<"description length", label.name>>>>
    ELSE IF ~Has(label, "color")
    THEN <<<<"needs a color", label.name>>>>
    ELSE IF Has(label, "url_exclude_is_open") /\ label.url_exclude_is_open # TRUE
    THEN <<<<"url_exclude_is_open needs to be set to true if present", label.name>>>>
    ELSE IF Has(label, "w3c") /\ label.w3c # TRUE
    THEN <<<<"w3c needs to be set to true if present", label.name>>>>
    ELSE <<>>

RECURSIVE lint_labels(_)
lint_labels(list) ==
    IF list = <<>>
    THEN <<>>
    ELSE LintMessage(Head(list)) \o lint_labels(Tail(list))

----------------------------------------------------------------------------
(* update_labels: list.sort(key = name) is stable *)

\* mutant: the labels are written in the order the merge left them in
SortByNameSkipped(list) == list

RECURSIVE InsertByName(_, _)
InsertByName(sorted, label) ==
    IF sorted = <<>>
    THEN <<label>>
    ELSE IF NameRank(label.name) < NameRank(Head(sorted).name)
    THEN <<label>> \o sorted
    ELSE <<Head(sorted)>> \o InsertByName(Tail(sorted), label)

RECURSIVE SortByName(_)
SortByName(list) ==
    IF list = <<>>
    THEN <<>>
    ELSE InsertByName(SortByName(SubSeq(list, 1, Len(list) - 1)),
                      list[Len(list)])

\* format_label: the name, whether "+is%3Aopen" is added, the description
format_label(label) ==
    <<label.name, ~Has(label, "url_exclude_is_open"), label.description>>

RECURSIVE DocLines(_, _)
DocLines(list, w3c) ==
    IF list = <<>>
    THEN <<>>
    ELSE (IF Has(Head(list), "w3c") = w3c
          THEN <<format_label(Head(list))>>
          ELSE <<>>) \o DocLines(Tail(list), w3c)

create_labels_docs(list) == DocLines(list, FALSE) \o DocLines(list, TRUE)

----------------------------------------------------------------------------
(* import_w3c_labels *)

\* w3c_label_index is a dict: a key keeps the place of its first insertion
\* and takes the value of its last.  Indices are those of the code (from 0).
InIndex(index, name) == \E k \in DOMAIN index : index[k].name = name

IndexOf(index, name) ==
    index[CHOOSE k \in DOMAIN index : index[k].name = name].at

\* mutant: the index kept as a list of pairs, one per upstream label
SetIndexAppends(index, name, at) == Append(index, [name |-> name, at |-> at])

SetIndex(index, name, at) ==
    IF InIndex(index, name)
    THEN [k \in DOMAIN index |->
            IF index[k].name = name THEN [name |-> name, at |-> at] ELSE index[k]]
    ELSE Append(index, [name |-> name, at |-> at])

DelIndex(index, name) == SelectSeq(index, LAMBDA e : e.name # name)

RECURSIVE BuildIndexFrom(_, _, _)
BuildIndexFrom(list, n, index) ==
    IF n = Len(list)
    THEN index
    ELSE BuildIndexFrom(list, n + 1, SetIndex(index, list[n + 1].name, n))

BuildIndex(list) == BuildIndexFrom(list, 0, <<>>)

Overwrite(label, upstream) ==
    With(With(With(label, "description", upstream.description),
              "color", lower(upstream.color)),
         "w3c", TRUE)

\* mutant: the color of a new label copied without .lower()
NewLabelKeepsCase(upstream) ==
    [name |-> upstream.name,
     description |-> upstream.description,
     color |-> upstream.color,
     w3c |-> TRUE]

NewLabel(upstream) ==
    [name |-> upstream.name,
     description |-> upstream.description,
     color |-> lower(upstream.color),
     w3c |-> TRUE]

\* mutant: "w3c" = True set outside the if, on every local label
MergeLabelFlagsAll(label, index, upstream_labels) ==
    IF InIndex(index, label.name)
    THEN Overwrite(label, upstream_labels[IndexOf(index, label.name) + 1])
    ELSE With(label, "w3c", TRUE)

\* the label the loop over local_labels leaves at its place
MergeLabel(label, index, upstream_labels) ==
    IF InIndex(index, label.name)
    THEN Overwrite(label, upstream_labels[IndexOf(index, label.name) + 1])
    ELSE label

\* mutant: the del of the consumed name is missing
ConsumeIndexKeeps(index, label) == index

\* the index after the loop's step on label
ConsumeIndex(index, label) ==
    IF InIndex(index, label.name) THEN DelIndex(index, label.name) ELSE index

\* mutant: "w3c" looked up in the index instead of in the label
NoLongerUpstreamWrongDict(label, index) ==
    ~InIndex(index, label.name) /\ InIndex(index, "w3c")

\* mutant: the merge stops only for a label whose w3c is true
NoLongerUpstreamOnlyTrue(label, index) ==
    ~InIndex(index, label.name) /\ Has(label, "w3c") /\ label.w3c = TRUE

\* assert False, "W3C label present that's no longer upstream"
NoLongerUpstream(label, index) ==
    ~InIndex(index, label.name) /\ Has(label, "w3c")

RECURSIVE NewLabels(_, _)
NewLabels(index, upstream_labels) ==
    IF index = <<>>
    THEN <<>>
    ELSE <<NewLabel(upstream_labels[Head(index).at + 1])>>
            \o NewLabels(Tail(index), upstream_labels)

----------------------------------------------------------------------------
(* The inputs of a merge *)

D_local == <<"l","o","c","a","l">>
D_privacy == <<"P","r","i","v","a","c","y"," ","r","e","v","i","e","w">>
D_other == <<"[","A","]","(","u",")">>

C_local == <<"0","0","0","0","0","0">>
C_upper == <<"D","4","C","5","F","9">>
C_mixed == <<"f","f","A","A","0","0">>

UpstreamNames == {"a11y", "privacy"}
LocalNames == UpstreamNames \cup {"bug"}

UpstreamLabels ==
    {[name |-> n, description |-> v[1], color |-> v[2]] :
        n \in UpstreamNames, v \in {<<D_privacy, C_upper>>, <<D_other, C_mixed>>}}

PlainLocal == {[name |-> n, description |-> D_local, color |-> C_local] : n \in LocalNames}

LocalLabels ==
    PlainLocal
      \cup {With(l, "w3c", b) : l \in PlainLocal, b \in BOOLEAN}
      \cup {With(l, "url_exclude_is_open", TRUE) : l \in {p \in PlainLocal : p.name = "bug"}}

SyncVars == <<remote, remote0, labels, d, r, calls, failures, runs>>

vars == <<pc, disk, docs, feed, w3c_labels, w3c_label_index, local_labels, i,
          out, disk0, merges, remote, remote0, labels, d, r, calls, failures,
          runs>>

NoSync ==
    /\ remote = <<>>
    /\ remote0 = <<>>
    /\ labels = <<>>
    /\ d = 0
    /\ r = 0
    /\ calls = <<>>
    /\ failures = 0
    /\ runs = 0

InitMerge ==
    /\ pc = "idle"
    /\ disk \in SeqsUpTo(LocalLabels, MaxLocal)
    /\ docs = <<>>
    /\ feed \in SeqsUpTo(UpstreamLabels, MaxUpstream)
    /\ w3c_labels = <<>>
    /\ w3c_label_index = <<>>
    /\ local_labels = <<>>
    /\ i = 0
    /\ out = <<>>
    /\ disk0 = disk
    /\ merges = 0
    /\ NoSync

\* lines 30-41: a run fetches the feed, indexes it and loads labels.json
StartImport ==
    /\ pc \in {"idle", "done", "aborted"}
    /\ w3c_labels' = feed
    /\ w3c_label_index' = BuildIndex(feed)
    /\ local_labels' = disk
    /\ i' = 0
    /\ out' = <<>>
    /\ disk0' = disk
    /\ pc' = "merge"
    /\ UNCHANGED <<disk, docs, feed, merges, SyncVars>>

\* lines 42-51: one turn of the loop over local_labels
MergeStep ==
    /\ pc = "merge"
    /\ i < Len(local_labels)
    /\ LET label == local_labels[i + 1]
       IN  IF NoLongerUpstream(label, w3c_label_index)
           THEN /\ pc' = "aborted"
                /\ UNCHANGED <<local_labels, w3c_label_index, i>>
           ELSE /\ local_labels' = [local_labels EXCEPT
                        ![i + 1] = MergeLabel(label, w3c_label_index, w3c_labels)]
                /\ w3c_label_index' = ConsumeIndex(w3c_label_index, label)
                /\ i' = i + 1
                /\ pc' = "merge"
    /\ UNCHANGED <<disk, docs, feed, w3c_labels, out, disk0, merges, SyncVars>>

\* lines 53-61: what is left in the index is appended
AppendNew ==
    /\ pc = "merge"
    /\ i = Len(local_labels)
    /\ local_labels' = local_labels \o NewLabels(w3c_label_index, w3c_labels)
    /\ pc' = "write"
    /\ UNCHANGED <<disk, docs, feed, w3c_labels, w3c_label_index, i, out, disk0, merges, SyncVars>>

\* lines 64-72: update_labels lints, sorts in place, writes both files
UpdateLabels ==
    /\ pc = "write"
    /\ out' = out \o lint_labels(local_labels)
    /\ local_labels' = SortByName(local_labels)
    /\ disk' = SortByName(local_labels)
    /\ docs' = create_labels_docs(SortByName(local_labels))
    /\ merges' = IF merges = 0 THEN 1 ELSE 2
    /\ pc' = "done"
    /\ UNCHANGED <<feed, w3c_labels, w3c_label_index, i, disk0, SyncVars>>

NextMerge == StartImport \/ MergeStep \/ AppendNew \/ UpdateLabels

SpecMerge == InitMerge /\ [][NextMerge]_vars

----------------------------------------------------------------------------
(* adjust_repository_labels *)

\* mutant: "good first issue" deleted with the other default labels
DefaultLabelNamesAll ==
    <<"bug", "duplicate", "enhancement", "good first issue", "help wanted",
      "invalid", "question", "wontfix">>

\* line 136
DefaultLabelNames ==
    <<"bug", "duplicate", "enhancement", "help wanted", "invalid", "question",
      "wontfix">>

\* lines 143-145: the label as it is sent
Sanitize(label) ==
    Without(With(label, "description", remove_markdown_links(label.description)),
            "url_exclude_is_open")

\* mutant: a label is added after any update that did not return 200
NeedsCreateAfterAnyFailure(status) == status # 200

\* line 147
NeedsCreate(status) == status = 404

\* mutant: a delete answered 404 is reported
DeleteToleratedOnly200(status) == status = 200

\* line 118: the answers to a delete that are not reported
DeleteTolerated(status) == status = 200 \/ status = 404

\* the statuses a request is answered with that the code does not report
Expected(method) ==
    CASE method = "DELETE" -> {200, 404}
      [] method = "PATCH" -> {200, 404}
      [] method = "POST" -> {201}

\* the statuses the repository's label store answers a request with
Statuses(method) ==
    CASE method = "DELETE" -> {200, 404, 500}
      [] method = "PATCH" -> {200, 404, 422}
      [] method = "POST" -> {201, 422}

\* error(type, label_name, status)
error(type, label_name, status) == <<type, label_name, status>>

\* the label store after it answered the request with status: a delete
\* answered 200 removed the label, an update answered 200 and a create
\* answered 201 stored the body under the name; any other answer changed
\* nothing
RemoteAfter(store, method, label_name, body, status) ==
    IF method = "DELETE" /\ status = 200
    THEN Without(store, label_name)
    ELSE IF (method = "PATCH" /\ status = 200) \/ (method = "POST" /\ status = 201)
    THEN With(store, label_name, body)
    ELSE store

Failed(method, status) == IF status \in Expected(method) THEN 0 ELSE 1

\* the answers the model lets a request get: any status of the method, an
\* unexpected one only while fewer than MaxFailures were given
Answers(method) ==
    {status \in Statuses(method) :
        status \in Expected(method) \/ failures < MaxFailures}

(* The inputs of a sync *)

D_link == <<"[","f","]","(","u",")"," ","s">>
D_plain == <<"b","u","g","s">>
D_long == Rep("x", MaxDescription + 1)
C_ok == <<"d","4","c","5","f","9">>
D_old == <<"o","l","d">>
D_and == <<"[","a","]","(","u",")"," ","a","n","d"," ","[","b","]","(","v",")">>
D_three == <<"[","a","]","(","u",")"," ","[","b","]","(","v",")"," ",
             "[","c","]","(","w",")">>

SyncLabels ==
    { [name |-> "new-label", description |-> D_link, color |-> C_ok,
       url_exclude_is_open |-> TRUE],
      [name |-> "bug", description |-> D_and, color |-> C_ok],
      [name |-> "privacy", color |-> C_ok],
      [description |-> D_plain, color |-> C_ok],
      [name |-> "a11y", description |-> D_plain],
      [name |-> "a11y", description |-> D_three, color |-> C_ok, w3c |-> FALSE],
      [name |-> "privacy", description |-> D_long, color |-> C_ok] }

RemoteLabel(name) == [name |-> name, description |-> D_old, color |-> C_local]

RemoteStores ==
    {[name \in names |-> RemoteLabel(name)] :
        names \in {{}, {"bug", "good first issue"},
                   {"good first issue", "new-label", "question"}}}

InitSync ==
    /\ pc = "delete"
    /\ disk \in SeqsUpTo(SyncLabels, MaxSync)
    /\ docs = <<>>
    /\ feed = <<>>
    /\ w3c_labels = <<>>
    /\ w3c_label_index = <<>>
    /\ local_labels = <<>>
    /\ i = 0
    /\ out = <<>>
    /\ disk0 = disk
    /\ merges = 0
    /\ remote \in RemoteStores
    /\ remote0 = remote
    /\ labels = <<>>
    /\ d = 0
    /\ r = 0
    /\ calls = <<>>
    /\ failures = 0
    /\ runs = 0

\* what a run of the sync leaves as it is
Unused ==
    <<docs, feed, w3c_labels, w3c_label_index, local_labels, disk0, merges, runs>>

\* lines 116-119, 136-137: delete_label for the next default name
DeleteDefault ==
    /\ pc = "delete"
    /\ d < Len(DefaultLabelNames)
    /\ LET label_name == DefaultLabelNames[d + 1]
       IN  \E status \in Answers("DELETE") :
              /\ r' = status
              /\ calls' = Append(calls, [method |-> "DELETE", name |-> label_name])
              /\ remote' = RemoteAfter(remote, "DELETE", label_name, <<>>, status)
              /\ out' = IF ~DeleteTolerated(status)
                         THEN Append(out, error("Deleting", label_name, status))
                         ELSE out
              /\ failures' = failures + Failed("DELETE", status)
    /\ d' = d + 1
    /\ UNCHANGED <<pc, disk, i, labels, remote0, Unused>>

\* lines 140-141: the labels are loaded and linted
LoadAndLint ==
    /\ pc = "delete"
    /\ d = Len(DefaultLabelNames)
    /\ labels' = disk
    /\ out' = out \o lint_labels(disk)
    /\ i' = 0
    /\ pc' = IF disk = <<>> THEN "done" ELSE "loop"
    /\ UNCHANGED <<disk, d, r, calls, remote, remote0, failures, Unused>>

\* lines 143-146, 121-124: the label is sanitized in place and the update is
\* sent; label["description"] and label["name"] raise KeyError when absent
UpdateLabel ==
    /\ pc = "loop"
    /\ LET label == labels[i + 1]
       IN  IF ~Has(label, "description")
           THEN /\ pc' = "crashed"
                /\ UNCHANGED <<labels, r, calls, remote, out, failures>>
           ELSE /\ labels' = [labels EXCEPT ![i + 1] = Sanitize(label)]
                /\ IF ~Has(label, "name")
                   THEN /\ pc' = "crashed"
                        /\ UNCHANGED <<r, calls, remote, out, failures>>
                   ELSE \E status \in Answers("PATCH") :
                          /\ r' = status
                          /\ calls' = Append(calls, [method |-> "PATCH",
                                name |-> label.name, body |-> Sanitize(label)])
                          /\ remote' = RemoteAfter(remote, "PATCH", label.name,
                                                   Sanitize(label), status)
                          /\ failures' = failures + Failed("PATCH", status)
                          /\ out' = out
                          /\ pc' = "response"
    /\ UNCHANGED <<disk, i, d, remote0, Unused>>

\* lines 147-148, 126-130: add_label after an update answered 404
AddLabel ==
    /\ pc = "response"
    /\ NeedsCreate(r)
    /\ LET label == labels[i + 1]
       IN  \E status \in Answers("POST") :
              /\ r' = status
              /\ calls' = Append(calls, [method |-> "POST", name |-> label.name,
                                         body |-> label])
              /\ remote' = RemoteAfter(remote, "POST", label.name, label, status)
              /\ out' = IF status # 201
                         THEN Append(out, error("Adding", label.name, status))
                         ELSE out
              /\ failures' = failures + Failed("POST", status)
    /\ i' = i + 1
    /\ pc' = IF i + 1 = Len(labels) THEN "done" ELSE "loop"
    /\ UNCHANGED <<disk, labels, d, remote0, Unused>>

\* lines 149-150: any other answer to the update
UpdateAnswered ==
    /\ pc = "response"
    /\ ~NeedsCreate(r)
    /\ out' = IF r # 200
               THEN Append(out, error("Updating", labels[i + 1].name, r))
               ELSE out
    /\ i' = i + 1
    /\ pc' = IF i + 1 = Len(labels) THEN "done" ELSE "loop"
    /\ UNCHANGED <<disk, labels, d, r, calls, remote, remote0, failures, Unused>>

NextSync == DeleteDefault \/ LoadAndLint \/ UpdateLabel \/ AddLabel \/ UpdateAnswered

SpecSync == InitSync /\ [][NextSync]_vars

(* Runs of the sync, one after the other, on a repository that answers for
   what it holds *)

\* the answer of a label store no one else changes: an update or a delete
\* of a label it holds gets 200 and of any other 404, a create gets 201 (422
\* for a name it already holds)
FaithfulStatus(store, method, label_name) ==
    CASE method = "POST" -> IF label_name \in DOMAIN store THEN 422 ELSE 201
      [] OTHER -> IF label_name \in DOMAIN store THEN 200 ELSE 404

\* the request this step sends gets the store's answer or, in the first
\* run only, a status that reports a failure
Faithful ==
    calls' # calls =>
        LET c == calls'[Len(calls')]
        IN  \/ r' = FaithfulStatus(remote, c.method, c.name)
            \/ runs = 0 /\ r' \notin Expected(c.method)

FaithfulDelete == DeleteDefault /\ Faithful

FaithfulUpdate == UpdateLabel /\ Faithful

FaithfulAdd == AddLabel /\ Faithful

\* lines 169-171: the script is started again on the same repository
Rerun ==
    /\ pc \in {"done", "crashed"}
    /\ runs + 1 < MaxRuns
    /\ runs' = runs + 1
    /\ pc' = "delete"
    /\ labels' = <<>>
    /\ d' = 0
    /\ i' = 0
    /\ r' = 0
    /\ calls' = <<>>
    /\ out' = <<>>
    /\ UNCHANGED <<disk, remote, remote0, failures, docs, feed, w3c_labels,
                   w3c_label_index, local_labels, disk0, merges>>

NextResync ==
    \/ FaithfulDelete
    \/ LoadAndLint
    \/ FaithfulUpdate
    \/ FaithfulAdd
    \/ UpdateAnswered
    \/ Rerun

SpecResync == InitSync /\ [][NextResync]_vars

----------------------------------------------------------------------------
(* lint_labels on its own: the loop of lines 14-26, one label a step *)

D_100 == Rep("x", MaxDescription)
D_link100 == <<"[">> \o Rep("x", MaxDescription) \o <<"]", "(", "u", ")">>
D_link101 == <<"[">> \o Rep("x", MaxDescription + 1) \o <<"]", "(", "u", ")">>
D_two == <<"[","a","]","(","u",")"," ","[","b","]","(","v",")">>

Fields(keys, description) ==
    [k \in keys |-> CASE k = "name" -> "a11y"
                      [] k = "description" -> description
                      [] k = "color" -> C_ok]

\* every choice of name, description and color present or absent
Unflagged ==
    {Fields(keys, D_100) : keys \in SUBSET {"name", "description", "color"}}
      \cup {Fields(keys \cup {"description"}, description) :
              keys \in SUBSET {"name", "color"},
              description \in {D_long, D_link100}}

Complete == {Fields({"name", "description", "color"}, description) :
                description \in {D_100, D_link100, D_link101, D_two}}

LintLabels ==
    Unflagged \cup Complete
      \cup {With(l, "url_exclude_is_open", b) : l \in Complete, b \in BOOLEAN}
      \cup {With(l, "w3c", b) : l \in Complete, b \in BOOLEAN}
      \cup {With(With(l, "w3c", FALSE), "url_exclude_is_open", FALSE) : l \in Complete}
      \cup {With(l, "w3c", FALSE) :
                l \in {u \in Unflagged : Has(u, "description") /\ u.description = D_100}}

InitLint ==
    /\ pc = "lint"
    /\ labels \in SeqsUpTo(LintLabels, MaxLint)
    /\ i = 0
    /\ out = <<>>
    /\ disk = <<>>
    /\ docs = <<>>
    /\ feed = <<>>
    /\ w3c_labels = <<>>
    /\ w3c_label_index = <<>>
    /\ local_labels = <<>>
    /\ disk0 = <<>>
    /\ merges = 0
    /\ remote = <<>>
    /\ remote0 = <<>>
    /\ d = 0
    /\ r = 0
    /\ calls = <<>>
    /\ failures = 0
    /\ runs = 0

LintOne ==
    /\ pc = "lint"
    /\ i < Len(labels)
    /\ out' = out \o LintMessage(labels[i + 1])
    /\ i' = i + 1
    /\ pc' = IF i + 1 = Len(labels) THEN "linted" ELSE "lint"
    /\ UNCHANGED <<labels, disk, d, r, calls, remote, remote0, failures, Unused>>

NextLint == LintOne

SpecLint == InitLint /\ [][NextLint]_vars

----------------------------------------------------------------------------
(* Properties of the merge *)

Names(list) == {list[k].name : k \in DOMAIN list}

Count(list, name) == Cardinality({k \in DOMAIN list : list[k].name = name})

Copies(list, label) == Cardinality({k \in DOMAIN list : list[k] = label})

Distinct(list) == \A name \in Names(list) : Count(list, name) = 1

\* the last upstream label of that name
LastUpstream(name) ==
    feed[CHOOSE k \in DOMAIN feed :
            /\ feed[k].name = name
            /\ \A j \in DOMAIN feed : feed[j].name = name => j <= k]

Adopted(upstream) ==
    [name |-> upstream.name, description |-> upstream.description,
     color |-> lower(upstream.color), w3c |-> TRUE]

\* C1 (as amended): after a merge that did not abort, every upstream name that
\* did not occur locally is the name of exactly one label of labels.json, and
\* that label has w3c = true and the description and lower-cased color of the
\* LAST upstream label of that name.
C1_MergeCompleteness ==
    pc = "done" =>
        \A name \in Names(feed) \ Names(disk0) :
            /\ Count(disk, name) = 1
            /\ Copies(disk, Adopted(LastUpstream(name))) = 1

\* C1 as stated: after a merge that did not abort, for every upstream label U
\* whose name did not occur locally, exactly one label of labels.json has U's
\* name, and it has w3c = true, U's description and U's color lower-cased,
\* also when the feed lists a name more than once.
C1_AsStated ==
    pc = "done" =>
        \A k \in DOMAIN feed :
            feed[k].name \notin Names(disk0) =>
                /\ Count(disk, feed[k].name) = 1
                /\ Copies(disk, Adopted(feed[k])) = 1

C1_Witness ==
    /\ pc = "done"
    /\ \E k, j \in DOMAIN feed :
          /\ k < j
          /\ feed[k].name = feed[j].name
          /\ feed[k].name \notin Names(disk0)
          /\ lower(feed[k].color) # lower(feed[j].color)
          /\ Copies(disk, Adopted(feed[j])) = 1

\* C2: a merge of any feed, also one that repeats a name, into labels whose
\* names are pairwise distinct leaves labels.json with pairwise distinct
\* names, and every upstream name is the name of exactly one of its labels.
C2_MergeUniqueness ==
    (pc = "done" /\ Distinct(disk0)) =>
        /\ Distinct(disk)
        /\ \A name \in Names(feed) : Count(disk, name) = 1

C2_Witness ==
    /\ pc = "done"
    /\ Distinct(disk0)
    /\ Len(disk0) = 2
    /\ Len(feed) = 2
    /\ feed[1].name = feed[2].name
    /\ feed[1] # feed[2]
    /\ feed[1].name \in Names(disk0)

\* C3: once a merge of the feed has completed, a further merge of the same
\* feed does not abort, appends no label and leaves labels.json as it is.
C3_MergeIdempotent ==
    [][merges >= 1 =>
          /\ pc' # "aborted"
          /\ disk' = disk
          /\ (pc = "merge" /\ pc' = "write" => local_labels' = local_labels)]_vars

C3_Witness ==
    /\ pc = "done"
    /\ merges = 2
    /\ Len(disk) > MaxLocal
    /\ \E k \in DOMAIN disk : ~Has(disk[k], "w3c")

\* C4: a run that finds a local label with w3c = true whose name is not in the
\* feed never gets to write; and as long as a run has not written, and so
\* in every aborted run, labels.json is what it was when the run started.
C4_ConsistencyAbort ==
    /\ pc \in {"write", "done"} =>
          \A k \in DOMAIN disk0 :
              ~(/\ Has(disk0[k], "w3c")
                /\ disk0[k].w3c = TRUE
                /\ disk0[k].name \notin Names(feed))
    /\ pc \in {"merge", "write", "aborted"} => disk = disk0

C4_Witness ==
    /\ pc = "aborted"
    /\ local_labels # disk0
    /\ \E k \in DOMAIN disk0 :
          /\ Has(disk0[k], "w3c")
          /\ disk0[k].w3c = TRUE
          /\ disk0[k].name \notin Names(feed)

\* C5 (as amended): a merge that did not abort leaves every local label that
\* carries no w3c key AND WHOSE NAME IS NOT IN THE FEED as it was: labels.json
\* holds it afterwards with the same name, description, color and flags.
C5_MergeFrame ==
    pc = "done" =>
        \A k \in DOMAIN disk0 :
            (~Has(disk0[k], "w3c") /\ disk0[k].name \notin Names(feed)) =>
                Copies(disk, disk0[k]) = Copies(disk0, disk0[k])

\* C5 as stated: a merge leaves every local label that carries no w3c key as
\* it was.
C5_AsStated ==
    pc = "done" =>
        \A k \in DOMAIN disk0 :
            ~Has(disk0[k], "w3c") => \E j \in DOMAIN disk : disk[j] = disk0[k]

C5_Witness ==
    /\ pc = "done"
    /\ \E k, j \in DOMAIN disk0 :
          /\ ~Has(disk0[k], "w3c")
          /\ disk0[k].name \notin Names(feed)
          /\ Has(disk0[k], "url_exclude_is_open")
          /\ disk0[j].name \in Names(feed)
          /\ \A m \in DOMAIN disk : disk[m] # disk0[j]

\* lines 42-64 on a feed of one's choosing: the loop from the n-th local
\* label on, then the append and the sort; ok is FALSE when line 50 aborts
RECURSIVE MergeLoop(_, _, _, _)
MergeLoop(list, index, upstream_labels, n) ==
    IF n > Len(list)
    THEN [ok |-> TRUE,
          written |-> SortByName(list \o NewLabels(index, upstream_labels))]
    ELSE IF NoLongerUpstream(list[n], index)
    THEN [ok |-> FALSE, written |-> <<>>]
    ELSE MergeLoop([list EXCEPT ![n] = MergeLabel(list[n], index, upstream_labels)],
                   ConsumeIndex(index, list[n]), upstream_labels, n + 1)

\* lines 28-64: what import_w3c_labels writes for these local labels and feed
import_w3c_labels(list, upstream_labels) ==
    MergeLoop(list, BuildIndex(upstream_labels), upstream_labels, 1)

\* the feeds that hold the labels of the feed in another (or the same) order
Reordered ==
    {[k \in DOMAIN feed |-> feed[p[k]]] : p \in Permutations(DOMAIN feed)}

\* the last label of that name in a feed
LastOf(upstream_labels, name) ==
    upstream_labels[CHOOSE k \in DOMAIN upstream_labels :
            /\ upstream_labels[k].name = name
            /\ \A j \in DOMAIN upstream_labels :
                  upstream_labels[j].name = name => j <= k]

SameLast(upstream_labels) ==
    \A name \in Names(feed) : LastOf(upstream_labels, name) = LastOf(feed, name)

Ascending(list) ==
    \A j, k \in DOMAIN list :
        j < k => NameRank(list[j].name) <= NameRank(list[k].name)

\* C16 (as amended): the labels.json a merge has written is in ascending
\* order of name, and it is what the merge writes for the same local labels
\* and any feed that holds the same labels in another order AND HAS, FOR
\* EVERY NAME, THE SAME LAST LABEL OF THAT NAME (as every reordering has
\* when no name is listed twice).
C16_OrderIndependent ==
    pc = "done" =>
        /\ Ascending(disk)
        /\ \A other \in Reordered :
              SameLast(other) =>
                  import_w3c_labels(disk0, other) = [ok |-> TRUE, written |-> disk]

\* C16 as stated: the labels.json a merge has written is in ascending order
\* of name, and it is what the merge writes for the same local labels and
\* any feed that holds the same labels in another order.
C16_AsStated ==
    pc = "done" =>
        /\ Ascending(disk)
        /\ \A other \in Reordered :
              import_w3c_labels(disk0, other) = [ok |-> TRUE, written |-> disk]

C16_Witness ==
    /\ pc = "done"
    /\ Len(disk0) = 1
    /\ disk0[1].name = "bug"
    /\ Len(feed) = 2
    /\ feed[1].name = "privacy"
    /\ feed[2].name = "a11y"
    /\ Len(disk) = 3
    /\ disk[1].name = "a11y"
    /\ disk[3].name = "privacy"
    /\ Cardinality(Reordered) = 2

\* C18 (as amended): FOR LOCAL LABELS OF PAIRWISE DISTINCT NAMES, a label of
\* the labels.json a merge has written carries the w3c key exactly when its
\* name is in the feed, and a merge aborts only when a local label that
\* carries the w3c key has a name that is not in the feed.
C18_Provenance ==
    Distinct(disk0) =>
        /\ pc = "done" =>
              \A k \in DOMAIN disk :
                  Has(disk[k], "w3c") <=> disk[k].name \in Names(feed)
        /\ pc = "aborted" =>
              \E k \in DOMAIN disk0 :
                  Has(disk0[k], "w3c") /\ disk0[k].name \notin Names(feed)

\* C18 as stated: a label of the labels.json a merge has written carries the
\* w3c key exactly when its name is in the feed, and a merge aborts only
\* when a local label that carries the w3c key has a name that is not in the
\* feed.
C18_AsStated ==
    /\ pc = "done" =>
          \A k \in DOMAIN disk :
              Has(disk[k], "w3c") <=> disk[k].name \in Names(feed)
    /\ pc = "aborted" =>
          \E k \in DOMAIN disk0 :
              Has(disk0[k], "w3c") /\ disk0[k].name \notin Names(feed)

C18_Witness ==
    /\ pc = "done"
    /\ merges = 1
    /\ Len(disk0) = 2
    /\ disk0[1].name = "privacy"
    /\ Has(disk0[1], "w3c")
    /\ disk0[1].w3c = FALSE
    /\ disk0[2].name = "bug"
    /\ Names(feed) = {"a11y", "privacy"}
    /\ Len(disk) = 3
    /\ Has(disk[1], "w3c")
    /\ ~Has(disk[2], "w3c")
    /\ disk[3].w3c = TRUE

----------------------------------------------------------------------------
(* Properties of the validator *)

MissingRequired(label) ==
    ~Has(label, "name") \/ ~Has(label, "description") \/ ~Has(label, "color")

Stripped100(label) ==
    Has(label, "description") /\ Len(remove_markdown_links(label.description)) <= 100

FlagsTrue(label) ==
    /\ Has(label, "url_exclude_is_open") => label.url_exclude_is_open = TRUE
    /\ Has(label, "w3c") => label.w3c = TRUE

HowMany(n, P(_)) == Cardinality({k \in 1..n : P(labels[k])})

CheckFails(label, n) ==
    CASE n = 1 -> ~Has(label, "name")
      [] n = 2 -> ~Has(label, "description")
      [] n = 3 -> Has(label, "description") /\ ~Stripped100(label)
      [] n = 4 -> ~Has(label, "color")
      [] n = 5 -> Has(label, "url_exclude_is_open") /\ label.url_exclude_is_open # TRUE
      [] n = 6 -> Has(label, "w3c") /\ label.w3c # TRUE

CheckText ==
    <<"needs a name", "needs a description", "description length",
      "needs a color", "url_exclude_is_open needs to be set to true if present",
      "w3c needs to be set to true if present">>

\* the message of the first check that fails, none when none fails
FirstFailing(label) ==
    LET failing == {n \in 1..6 : CheckFails(label, n)}
        first == CHOOSE n \in failing : \A m \in failing : n <= m
    IN  IF failing = {}
        THEN <<>>
        ELSE IF first = 1
        THEN << <<CheckText[1]>> >>
        ELSE << <<CheckText[first], label.name>> >>

RECURSIVE FirstFailings(_, _)
FirstFailings(list, n) ==
    IF n = 0 THEN <<>> ELSE FirstFailings(list, n - 1) \o FirstFailing(list[n])

\* C14: what lint_labels has printed after i labels is, label after label
\* and in their order, the message of the first check that fails for the
\* label (in the order name, description, description length, color,
\* url_exclude_is_open, w3c) and nothing for a label no check fails for; the
\* validator goes on to the next label after a violation and is done only
\* when every label has been checked.
C14_OneMessageNoEarlyStop ==
    /\ out = FirstFailings(labels, i)
    /\ pc = "linted" => i = Len(labels)
    /\ (pc = "lint" /\ labels # <<>>) => i < Len(labels)

C14_Witness ==
    /\ pc = "linted"
    /\ Len(labels) = 2
    /\ ~CheckFails(labels[1], 1)
    /\ CheckFails(labels[1], 3)
    /\ CheckFails(labels[1], 4)
    /\ ~CheckFails(labels[2], 1)
    /\ CheckFails(labels[2], 6)
    /\ out = << <<"description length", labels[1].name>>,
                <<"w3c needs to be set to true if present", labels[2].name>> >>

----------------------------------------------------------------------------
(* Properties of the sync *)

FixedDefaultSet ==
    {"bug", "duplicate", "enhancement", "help wanted", "invalid", "question",
     "wontfix"}

NamesOf(list) == {list[k].name : k \in {j \in DOMAIN list : Has(list[j], "name")}}

Sent(method) == SelectSeq(calls, LAMBDA c : c.method = method)

Finished == pc \in {"done", "crashed"}

\* C7: a create is sent exactly when the update of the current label was
\* answered 404, once, right after that update and with the body the update
\* carried; a create answered with another status than 201 adds exactly the
\* report <<"Adding", name, status>>; and after the answer to the update
\* (and to the create, if one was sent) the loop is at the next label.
C7_CreateFallback ==
    [][/\ (pc = "response" /\ r = 404) =>
             /\ calls[Len(calls)].method = "PATCH"
             /\ calls[Len(calls)].body = labels[i + 1]
             /\ calls' = Append(calls, [method |-> "POST",
                                        name |-> calls[Len(calls)].name,
                                        body |-> calls[Len(calls)].body])
             /\ out' = IF r' # 201
                       THEN Append(out, <<"Adding", labels[i + 1].name, r'>>)
                       ELSE out
       /\ (pc = "response" /\ r # 404) => calls' = calls
       /\ pc = "response" =>
             /\ i' = i + 1
             /\ labels' = labels
             /\ pc' = IF i' < Len(labels) THEN "loop" ELSE "done"
       /\ pc # "response" =>
             ~(calls' # calls /\ calls'[Len(calls')].method = "POST")]_vars

C7_Witness ==
    /\ pc = "loop"
    /\ i = 1
    /\ calls[Len(calls)].method = "POST"
    /\ calls[Len(calls)].name = "new-label"
    /\ ~Has(calls[Len(calls)].body, "url_exclude_is_open")
    /\ r = 422
    /\ out[Len(out)] = <<"Adding", "new-label", 422>>

\* C8 as stated: a run over labels with validation violations reports them
\* and still attempts an update for every label of labels.json.
C8_AsStated ==
    (Finished /\ lint_labels(disk) # <<>>) =>
        /\ \A k \in DOMAIN lint_labels(disk) :
              \E j \in DOMAIN out : out[j] = lint_labels(disk)[k]
        /\ Len(Sent("PATCH")) = Len(disk)

\* C9 as stated: whatever the statuses, the run completes and has sent
\* exactly one update per label of labels.json, in the order of labels.json.
C9_AsStated ==
    Finished =>
        /\ pc = "done"
        /\ Len(Sent("PATCH")) = Len(disk)
        /\ \A k \in DOMAIN disk :
              Has(disk[k], "name") /\ Sent("PATCH")[k].name = disk[k].name

C11_AsStated ==
    Finished =>
        /\ Len(calls) >= 7
        /\ {calls[k].name : k \in 1..7} = FixedDefaultSet
        /\ \A k \in DOMAIN calls : calls[k].method = "DELETE" <=> k <= 7
        /\ \A k \in DOMAIN disk :
              (Has(disk[k], "name") /\ disk[k].name \in FixedDefaultSet) =>
                  \E j \in DOMAIN calls :
                      /\ j > 7
                      /\ calls[j].method = "PATCH"
                      /\ calls[j].name = disk[k].name

DistinctNames(list) ==
    \A j, k \in DOMAIN list :
        (j # k /\ Has(list[j], "name") /\ Has(list[k], "name")) =>
            list[j].name # list[k].name

\* the store holds the label as the sync sends it
Holds(store, label) ==
    /\ Has(label, "name")
    /\ Has(label, "description")
    /\ label.name \in DOMAIN store
    /\ store[label.name] = Sanitize(label)

\* the store is what a run without failures makes of remote0: the labels of
\* labels.json as sent, and the other labels of remote0 but the default ones
Converged(store) ==
    /\ \A k \in DOMAIN disk : Holds(store, disk[k])
    /\ DOMAIN store = (DOMAIN remote0 \ FixedDefaultSet) \cup NamesOf(disk)
    /\ \A name \in DOMAIN store \ NamesOf(disk) : store[name] = remote0[name]

\* C12 as stated: on a store that answers faithfully, for a labels.json of
\* distinct names, the store holds every label of labels.json as sent after
\* a first run without failures; a second run ends in the state the first
\* one ended in; and the run that follows a run with failures ends in the
\* state a first run without failures ends in.
C12_AsStated ==
    (Finished /\ DistinctNames(disk)) =>
        /\ (runs = 0 /\ failures = 0) =>
              \A k \in DOMAIN disk : Holds(remote, disk[k])
        /\ runs >= 1 => Converged(remote)

\* what error() printed, among all that was printed
Reports(printed) ==
    SelectSeq(printed, LAMBDA e :
        Len(e) = 3 /\ e[1] \in {"Deleting", "Updating", "Adding"})

\* C13: a delete answered 200 or 404 prints nothing and a delete answered
\* with any other status prints exactly <<"Deleting", name, status>>; an
\* update answered 200 or 404 prints nothing and one answered with any other
\* status prints exactly <<"Updating", name, status>>; a create answered
\* with another status than 201 prints exactly <<"Adding", name, status>>;
\* and, once the answer to a request has been dealt with, the reports
\* printed are as many as the requests answered with an unexpected status.
C13_ExpectedNotReported ==
    [][/\ calls' # calls =>
             LET c == calls'[Len(calls')]
             IN  CASE c.method = "DELETE" ->
                        out' = IF r' \in {200, 404}
                               THEN out
                               ELSE Append(out, <<"Deleting", c.name, r'>>)
                   [] c.method = "PATCH" -> out' = out
                   [] c.method = "POST" ->
                        out' = IF r' = 201
                               THEN out
                               ELSE Append(out, <<"Adding", c.name, r'>>)
       /\ (pc = "response" /\ calls' = calls) =>
             out' = IF r \in {200, 404}
                    THEN out
                    ELSE Append(out, <<"Updating", calls[Len(calls)].name, r>>)
       /\ pc' # "response" => Len(Reports(out')) = failures']_vars

C13_Witness ==
    /\ pc = "done"
    /\ Len(calls) = 8
    /\ r = 422
    /\ failures = 1
    /\ Reports(out) = << <<"Updating", "bug", 422>> >>
    /\ "bug" \in DOMAIN remote0 \ DOMAIN remote

----------------------------------------------------------------------------
(* Properties of the link stripping *)

\* the places of s after p where the character c stands
Places(s, c, p) == {q \in (p + 1)..Len(s) : s[q] = c}

Least(S) == CHOOSE n \in S : \A m \in S : n <= m

\* a link [text](url) starts at p: text runs to the first "]" and url from
\* the "(" that follows it to the first ")", neither is empty
IsLinkAt(s, p) ==
    /\ s[p] = "["
    /\ Places(s, "]", p) # {}
    /\ LET e == Least(Places(s, "]", p))
       IN  /\ e > p + 1
           /\ e < Len(s)
           /\ s[e + 1] = "("
           /\ Places(s, ")", e + 1) # {}
           /\ Least(Places(s, ")", e + 1)) > e + 2

HasLink(s) == \E p \in DOMAIN s : IsLinkAt(s, p)

\* s from p on with each link replaced by its text
RECURSIVE EachLinkStripped(_, _)
EachLinkStripped(s, p) ==
    IF p > Len(s)
    THEN <<>>
    ELSE IF IsLinkAt(s, p)
    THEN LET e == Least(Places(s, "]", p))
             f == Least(Places(s, ")", e + 1))
         IN  SubSeq(s, p + 1, e - 1) \o EachLinkStripped(s, f + 1)
    ELSE <<s[p]>> \o EachLinkStripped(s, p + 1)

\* C17 as stated: the description an update carries is the description of
\* labels.json with each [text](url) replaced by its text: "[a](u) and
\* [b](v)" is sent as "a and b" and "[f](u) s" as "f s".
C17_AsStated ==
    \A k \in DOMAIN Sent("PATCH") :
        Sent("PATCH")[k].body.description =
            EachLinkStripped(disk[k].description, 1)

\* C15 as stated: the body of every update and create lacks
\* url_exclude_is_open and carries the description with its links stripped;
\* no label of the repository has a url_exclude_is_open key or a description
\* with a [text](url) link left in it; and labels.json is what it was.
C15_AsStated ==
    /\ \A k \in DOMAIN calls :
          calls[k].method \in {"PATCH", "POST"} =>
              /\ ~Has(calls[k].body, "url_exclude_is_open")
              /\ ~HasLink(calls[k].body.description)
    /\ \A name \in DOMAIN remote :
          /\ ~Has(remote[name], "url_exclude_is_open")
          /\ ~HasLink(remote[name].description)
    /\ disk = disk0

====
